---- MODULE Spec2Model ----
(***************************************************************************)
(* State-machine model of the Home component of src/src/app/page.tsx: the  *)
(* React state slots, the two fetch-based handlers with their promise      *)
(* continuations, the theme effect and the theme toggle.                   *)
(*                                                                         *)
(* One action is one task of the browser's event loop: a click handler up  *)
(* to its first await, or the continuation that runs when an awaited       *)
(* promise settles.  React re-renders between two tasks, so a handler      *)
(* closure always sees the state of the preceding task.                    *)
(***************************************************************************)
EXTENDS Integers, Sequences, FiniteSets, TLC

VARIABLES
    inputText,          \* useState("")
    result,             \* useState<EvaluationResult | null>(null)
    history,            \* useState<HistoryItem[]>([])
    isEvaluating,       \* useState(false)
    isLoadingHistory,   \* useState(false)
    error,              \* useState<string | null>(null)
    darkMode,           \* useState(false)
    backendUrl,         \* process.env.NEXT_PUBLIC_BACKEND_URL
    localStorage,       \* window.localStorage, a function key -> string
    classList,          \* document.documentElement.classList, a set of names
    mounted,            \* TRUE once the useEffect(() => ..., []) callback ran
    savedTheme,         \* the effect's const savedTheme
    evaluateCalls,      \* outstanding handleEvaluate invocations, each at an await
    historyCalls,       \* outstanding handleGetHistory invocations, each at an await
    latestResult,       \* history variable: data.result of the last successful evaluate
    latestHistory,      \* history variable: payload of the last successful history fetch
    errorWriters,       \* history variable: the handlers that called setError so far
    toggledFrom         \* history variable: the theme state before each of the last
                        \* two toggleTheme invocations, oldest first

vars == <<inputText, result, history, isEvaluating, isLoadingHistory, error,
          darkMode, backendUrl, localStorage, classList, mounted, savedTheme,
          evaluateCalls, historyCalls, latestResult, latestHistory, errorWriters,
          toggledFrom>>

uiVars == <<inputText, result, history, isEvaluating, isLoadingHistory, error>>
themeVars == <<darkMode, localStorage, classList, mounted, savedTheme, toggledFrom>>
netVars == <<evaluateCalls, historyCalls>>
ghostVars == <<latestResult, latestHistory, errorWriters>>

----------------------------------------------------------------------------
(* JavaScript values *)

\* null and undefined where the other values of the slot are strings
Null == "<null>"
Undefined == "<undefined>"
\* null in the error slot, whose other values are sequences of message parts
NoError == << >>

\* JavaScript truthiness of a string-or-nullish value (!x is ~Truthy(x))
Truthy(x) == x \notin {Null, Undefined, ""}

----------------------------------------------------------------------------
(* Bounds and input domains *)

\* how many invocations of one handler may be outstanding when the handlers
\* are invoked directly (HandlerSpec); the controls of Spec never reach it
MaxPending == 1

Texts == {"", "a", "b"}
BackendUrls == {Undefined, "", "http://api"}
StoredThemes == {"dark", "light", "system"}
Statuses == {200, 299, 404, 500}
\* bodies the backend may send for /evaluate_response; the last has no "result"
EvaluateBodies == {[result |-> "R1"], [result |-> "R2"], [detail |-> "x"]}
\* bodies the backend may send for /get_all_data
HistoryBodies == {<< >>, <<"H1">>, <<"H2", "H1">>}
\* messages of the TypeError a rejected fetch carries
FetchErrors == {[isError |-> TRUE, message |-> <<"Failed to fetch">>]}
\* messages of the SyntaxError a rejected response.json() carries
JsonErrors == {[isError |-> TRUE, message |-> <<"Unexpected end of JSON input">>]}

----------------------------------------------------------------------------
(* Pure helpers *)

\* localStorage.getItem(key): null when the key is absent
getItem(store, key) == IF key \in DOMAIN store THEN store[key] ELSE Null

\* localStorage.setItem(key, value)
setItem(store, key, value) ==
    [k \in DOMAIN store \cup {key} |-> IF k = key THEN value ELSE store[k]]

\* response.ok: status in the range 200-299
ResponseOk(status) == status >= 200 /\ status <= 299

\* `HTTP error! status: ${response.status}`
HttpErrorMessage(status) == <<"HTTP error! status: ", ToString(status)>>

\* error instanceof Error ? error.message : "An error occurred"
ErrorMessage(e) == IF e.isError THEN e.message ELSE <<"An error occurred">>

\* new Error(`HTTP error! status: ${response.status}`)
HttpError(status) == [isError |-> TRUE, message |-> HttpErrorMessage(status)]

\* data.result: undefined when the body has no such field
DataResult(data) == IF "result" \in DOMAIN data THEN data.result ELSE Undefined

\* `${backendUrl}/evaluate_response` and `${backendUrl}/get_all_data`
EvaluateUrl(base) == <<base, "/evaluate_response">>
HistoryUrl(base) == <<base, "/get_all_data">>

\* removes the i-th element of a sequence
RemoveAt(s, i) == [k \in 1..(Len(s) - 1) |-> IF k < i THEN s[k] ELSE s[k + 1]]

\* the last two elements of a sequence (the whole of a shorter one)
LastTwo(s) == IF Len(s) <= 2 THEN s ELSE SubSeq(s, Len(s) - 1, Len(s))

\* replaces the i-th element of a sequence
ReplaceAt(s, i, x) == [s EXCEPT ![i] = x]

----------------------------------------------------------------------------
(* Initial state: the first render, before the effect has run *)

\* the class list of the document as served: the page is light until the
\* effect or toggleTheme adds the class
InitialClassList == {}

Init ==
    /\ inputText = ""
    /\ result = Null
    /\ history = << >>
    /\ isEvaluating = FALSE
    /\ isLoadingHistory = FALSE
    /\ error = NoError
    /\ darkMode = FALSE
    /\ backendUrl \in BackendUrls
    /\ localStorage \in {[k \in {} |-> ""]} \cup {[theme |-> v] : v \in StoredThemes}
    /\ classList = InitialClassList
    /\ mounted = FALSE
    /\ savedTheme = Undefined
    /\ evaluateCalls = << >>
    /\ historyCalls = << >>
    /\ latestResult = Null
    /\ latestHistory = << >>
    /\ errorWriters = {}
    /\ toggledFrom = << >>

----------------------------------------------------------------------------
(* Theme *)

\* mutant: the effect takes every saved value but "light" for dark
ThemeEffectDefaultDark ==
    /\ ~mounted
    /\ mounted' = TRUE
    /\ savedTheme' = getItem(localStorage, "theme")
    /\ darkMode' = (savedTheme' # "light")
    /\ classList' = IF savedTheme' # "light" THEN classList \cup {"dark"} ELSE classList
    /\ UNCHANGED <<localStorage, backendUrl, toggledFrom>>
    /\ UNCHANGED <<uiVars, netVars, ghostVars>>

\* useEffect(() => { ... }, []): runs once after the first commit; React
\* flushes it before it dispatches any user event
ThemeEffect ==
    /\ ~mounted
    /\ mounted' = TRUE
    /\ savedTheme' = getItem(localStorage, "theme")
    /\ darkMode' = (savedTheme' = "dark")
    /\ classList' = IF savedTheme' = "dark" THEN classList \cup {"dark"} ELSE classList
    /\ UNCHANGED <<localStorage, backendUrl, toggledFrom>>
    /\ UNCHANGED <<uiVars, netVars, ghostVars>>

\* mutant: toggleTheme never removes the class
ToggleThemeStateKeepsClass(dm, cl, ls) ==
    IF dm
    THEN [darkMode |-> ~dm, classList |-> cl,
          localStorage |-> setItem(ls, "theme", "light")]
    ELSE [darkMode |-> ~dm, classList |-> cl \cup {"dark"},
          localStorage |-> setItem(ls, "theme", "dark")]

\* the theme state toggleTheme leaves, as a function of the one it finds
ToggleThemeState(dm, cl, ls) ==
    IF dm
    THEN [darkMode |-> ~dm, classList |-> cl \ {"dark"},
          localStorage |-> setItem(ls, "theme", "light")]
    ELSE [darkMode |-> ~dm, classList |-> cl \cup {"dark"},
          localStorage |-> setItem(ls, "theme", "dark")]

\* onClick={toggleTheme}
toggleTheme ==
    /\ mounted
    /\ LET t == ToggleThemeState(darkMode, classList, localStorage)
       IN /\ darkMode' = t.darkMode
          /\ classList' = t.classList
          /\ localStorage' = t.localStorage
    /\ toggledFrom' = LastTwo(Append(toggledFrom,
            [darkMode |-> darkMode, classList |-> classList,
             localStorage |-> localStorage]))
    /\ UNCHANGED <<mounted, savedTheme, backendUrl>>
    /\ UNCHANGED <<uiVars, netVars, ghostVars>>

----------------------------------------------------------------------------
(* Input box *)

\* onChange={(e) => setInputText(e.target.value)}
setInputText(t) ==
    /\ mounted
    /\ t # inputText
    /\ inputText' = t
    /\ UNCHANGED <<result, history, isEvaluating, isLoadingHistory, error>>
    /\ UNCHANGED <<themeVars, netVars, ghostVars, backendUrl>>

----------------------------------------------------------------------------
(* Evaluate *)

\* "Backend URL is not configured"
ConfigError == <<"Backend URL is not configured">>

\* mutant: the button stays enabled while an evaluate call is outstanding
EvaluateDisabledIgnoringFlight == ~Truthy(inputText) \/ ~Truthy(backendUrl)

\* mutant: the button is enabled on empty input
EvaluateDisabledIgnoringInput == isEvaluating \/ ~Truthy(backendUrl)

\* disabled={isEvaluating || !inputText || !backendUrl}
EvaluateDisabled == isEvaluating \/ ~Truthy(inputText) \/ ~Truthy(backendUrl)

\* mutant: handleEvaluate without its configuration check
handleEvaluateUnchecked ==
    /\ isEvaluating' = TRUE
    /\ error' = NoError
    /\ errorWriters' = errorWriters \cup {"evaluate"}
    /\ evaluateCalls' = Append(evaluateCalls,
           [url |-> EvaluateUrl(backendUrl), method |-> "POST",
            body |-> [response |-> inputText], pc |-> "fetch"])
    /\ UNCHANGED <<inputText, result, history, isLoadingHistory>>
    /\ UNCHANGED <<themeVars, historyCalls, latestResult, latestHistory, backendUrl>>

\* handleEvaluate up to its first await
handleEvaluate ==
    IF ~Truthy(backendUrl)
    THEN /\ error' = ConfigError
         /\ errorWriters' = errorWriters \cup {"evaluate"}
         /\ UNCHANGED <<inputText, result, history, isEvaluating, isLoadingHistory>>
         /\ UNCHANGED <<themeVars, netVars, latestResult, latestHistory, backendUrl>>
    ELSE /\ isEvaluating' = TRUE
         /\ error' = NoError
         /\ errorWriters' = errorWriters \cup {"evaluate"}
         /\ evaluateCalls' = Append(evaluateCalls,
                [url |-> EvaluateUrl(backendUrl), method |-> "POST",
                 body |-> [response |-> inputText], pc |-> "fetch"])
         /\ UNCHANGED <<inputText, result, history, isLoadingHistory>>
         /\ UNCHANGED <<themeVars, historyCalls, latestResult, latestHistory, backendUrl>>

\* a click on the evaluate button: a disabled button dispatches no click
ClickEvaluate == mounted /\ ~EvaluateDisabled /\ handleEvaluate

\* mutant: the catch block also drops the previous result
EvaluateCatchClearsResult(i, e) ==
    /\ error' = ErrorMessage(e)
    /\ errorWriters' = errorWriters \cup {"evaluate"}
    /\ isEvaluating' = FALSE
    /\ result' = Null
    /\ evaluateCalls' = RemoveAt(evaluateCalls, i)
    /\ UNCHANGED <<inputText, history, isLoadingHistory>>
    /\ UNCHANGED <<themeVars, historyCalls, latestResult, latestHistory, backendUrl>>

\* mutant: no finally block, the flag stays set after a failure
EvaluateCatchKeepsLoading(i, e) ==
    /\ error' = ErrorMessage(e)
    /\ errorWriters' = errorWriters \cup {"evaluate"}
    /\ evaluateCalls' = RemoveAt(evaluateCalls, i)
    /\ UNCHANGED <<inputText, result, history, isEvaluating, isLoadingHistory>>
    /\ UNCHANGED <<themeVars, historyCalls, latestResult, latestHistory, backendUrl>>

\* catch (error) { setError(...) } finally { setIsEvaluating(false) }
EvaluateCatch(i, e) ==
    /\ error' = ErrorMessage(e)
    /\ errorWriters' = errorWriters \cup {"evaluate"}
    /\ isEvaluating' = FALSE
    /\ evaluateCalls' = RemoveAt(evaluateCalls, i)
    /\ UNCHANGED <<inputText, result, history, isLoadingHistory>>
    /\ UNCHANGED <<themeVars, historyCalls, latestResult, latestHistory, backendUrl>>

\* await fetch(...) rejects
EvaluateFetchRejected(i, e) ==
    /\ i \in DOMAIN evaluateCalls
    /\ evaluateCalls[i].pc = "fetch"
    /\ EvaluateCatch(i, e)

\* await fetch(...) resolves with a response: if (!response.ok) throw ...
EvaluateResponse(i, status) ==
    /\ i \in DOMAIN evaluateCalls
    /\ evaluateCalls[i].pc = "fetch"
    /\ IF ~ResponseOk(status)
       THEN EvaluateCatch(i, HttpError(status))
       ELSE /\ evaluateCalls' =
                  ReplaceAt(evaluateCalls, i, [evaluateCalls[i] EXCEPT !.pc = "json"])
            /\ UNCHANGED <<uiVars, themeVars, historyCalls, ghostVars, backendUrl>>

\* await response.json() rejects
EvaluateJsonRejected(i, e) ==
    /\ i \in DOMAIN evaluateCalls
    /\ evaluateCalls[i].pc = "json"
    /\ EvaluateCatch(i, e)

\* mutant: a successful evaluate also clears the error message
EvaluateJsonResolvedClearsError(i, data) ==
    /\ i \in DOMAIN evaluateCalls
    /\ evaluateCalls[i].pc = "json"
    /\ result' = DataResult(data)
    /\ latestResult' = DataResult(data)
    /\ error' = NoError
    /\ isEvaluating' = FALSE
    /\ evaluateCalls' = RemoveAt(evaluateCalls, i)
    /\ UNCHANGED <<inputText, history, isLoadingHistory>>
    /\ UNCHANGED <<themeVars, historyCalls, latestHistory, errorWriters, backendUrl>>

\* await response.json() resolves: setResult(data.result); finally
EvaluateJsonResolved(i, data) ==
    /\ i \in DOMAIN evaluateCalls
    /\ evaluateCalls[i].pc = "json"
    /\ result' = DataResult(data)
    /\ latestResult' = DataResult(data)
    /\ isEvaluating' = FALSE
    /\ evaluateCalls' = RemoveAt(evaluateCalls, i)
    /\ UNCHANGED <<inputText, history, isLoadingHistory, error>>
    /\ UNCHANGED <<themeVars, historyCalls, latestHistory, errorWriters, backendUrl>>

----------------------------------------------------------------------------
(* History *)

\* mutant: one loading flag shared by the two buttons
HistoryDisabledWhileEvaluating == isLoadingHistory \/ isEvaluating \/ ~Truthy(backendUrl)

\* disabled={isLoadingHistory || !backendUrl}
HistoryDisabled == isLoadingHistory \/ ~Truthy(backendUrl)

\* handleGetHistory up to its first await
handleGetHistory ==
    IF ~Truthy(backendUrl)
    THEN /\ error' = ConfigError
         /\ errorWriters' = errorWriters \cup {"history"}
         /\ UNCHANGED <<inputText, result, history, isEvaluating, isLoadingHistory>>
         /\ UNCHANGED <<themeVars, netVars, latestResult, latestHistory, backendUrl>>
    ELSE /\ isLoadingHistory' = TRUE
         /\ error' = NoError
         /\ errorWriters' = errorWriters \cup {"history"}
         /\ historyCalls' = Append(historyCalls,
                [url |-> HistoryUrl(backendUrl), method |-> "GET", pc |-> "fetch"])
         /\ UNCHANGED <<inputText, result, history, isEvaluating>>
         /\ UNCHANGED <<themeVars, evaluateCalls, latestResult, latestHistory, backendUrl>>

\* a click on the history button
ClickGetHistory == mounted /\ ~HistoryDisabled /\ handleGetHistory

\* mutant: the finally block of handleEvaluate pasted into handleGetHistory
HistoryCatchResetsEvaluating(i, e) ==
    /\ error' = ErrorMessage(e)
    /\ errorWriters' = errorWriters \cup {"history"}
    /\ isEvaluating' = FALSE
    /\ isLoadingHistory' = FALSE
    /\ historyCalls' = RemoveAt(historyCalls, i)
    /\ UNCHANGED <<inputText, result, history>>
    /\ UNCHANGED <<themeVars, evaluateCalls, latestResult, latestHistory, backendUrl>>

\* catch (error) { setError(...) } finally { setIsLoadingHistory(false) }
HistoryCatch(i, e) ==
    /\ error' = ErrorMessage(e)
    /\ errorWriters' = errorWriters \cup {"history"}
    /\ isLoadingHistory' = FALSE
    /\ historyCalls' = RemoveAt(historyCalls, i)
    /\ UNCHANGED <<inputText, result, history, isEvaluating>>
    /\ UNCHANGED <<themeVars, evaluateCalls, latestResult, latestHistory, backendUrl>>

\* await fetch(...) rejects
HistoryFetchRejected(i, e) ==
    /\ i \in DOMAIN historyCalls
    /\ historyCalls[i].pc = "fetch"
    /\ HistoryCatch(i, e)

\* await fetch(...) resolves with a response: if (!response.ok) throw ...
HistoryResponse(i, status) ==
    /\ i \in DOMAIN historyCalls
    /\ historyCalls[i].pc = "fetch"
    /\ IF ~ResponseOk(status)
       THEN HistoryCatch(i, HttpError(status))
       ELSE /\ historyCalls' =
                  ReplaceAt(historyCalls, i, [historyCalls[i] EXCEPT !.pc = "json"])
            /\ UNCHANGED <<uiVars, themeVars, evaluateCalls, ghostVars, backendUrl>>

\* await response.json() rejects
HistoryJsonRejected(i, e) ==
    /\ i \in DOMAIN historyCalls
    /\ historyCalls[i].pc = "json"
    /\ HistoryCatch(i, e)

\* mutant: the payload is appended to the history held
HistoryJsonResolvedMerging(i, data) ==
    /\ i \in DOMAIN historyCalls
    /\ historyCalls[i].pc = "json"
    /\ history' = history \o data
    /\ latestHistory' = data
    /\ isLoadingHistory' = FALSE
    /\ historyCalls' = RemoveAt(historyCalls, i)
    /\ UNCHANGED <<inputText, result, isEvaluating, error>>
    /\ UNCHANGED <<themeVars, evaluateCalls, latestResult, errorWriters, backendUrl>>

\* await response.json() resolves: setHistory(data); finally
HistoryJsonResolved(i, data) ==
    /\ i \in DOMAIN historyCalls
    /\ historyCalls[i].pc = "json"
    /\ history' = data
    /\ latestHistory' = data
    /\ isLoadingHistory' = FALSE
    /\ historyCalls' = RemoveAt(historyCalls, i)
    /\ UNCHANGED <<inputText, result, isEvaluating, error>>
    /\ UNCHANGED <<themeVars, evaluateCalls, latestResult, errorWriters, backendUrl>>

----------------------------------------------------------------------------
(* Specifications *)

\* a continuation of an outstanding handleEvaluate runs
EvaluateSettle ==
    \E i \in DOMAIN evaluateCalls :
        \/ \E e \in FetchErrors : EvaluateFetchRejected(i, e)
        \/ \E s \in Statuses : EvaluateResponse(i, s)
        \/ \E e \in JsonErrors : EvaluateJsonRejected(i, e)
        \/ \E d \in EvaluateBodies : EvaluateJsonResolved(i, d)

\* a continuation of an outstanding handleGetHistory runs
HistorySettle ==
    \E i \in DOMAIN historyCalls :
        \/ \E e \in FetchErrors : HistoryFetchRejected(i, e)
        \/ \E s \in Statuses : HistoryResponse(i, s)
        \/ \E e \in JsonErrors : HistoryJsonRejected(i, e)
        \/ \E d \in HistoryBodies : HistoryJsonResolved(i, d)

\* the page as the user drives it
Next ==
    \/ ThemeEffect
    \/ toggleTheme
    \/ \E t \in Texts : setInputText(t)
    \/ ClickEvaluate
    \/ ClickGetHistory
    \/ EvaluateSettle
    \/ HistorySettle

Spec == Init /\ [][Next]_vars

\* every issued request eventually settles
LiveSpec == Spec /\ WF_vars(EvaluateSettle) /\ WF_vars(HistorySettle)

\* the handlers invoked directly, whatever the state of their buttons
InvokeHandleEvaluate == mounted /\ Len(evaluateCalls) < MaxPending /\ handleEvaluate
InvokeHandleGetHistory == mounted /\ Len(historyCalls) < MaxPending /\ handleGetHistory

NextHandlers ==
    \/ ThemeEffect
    \/ \E t \in Texts : setInputText(t)
    \/ InvokeHandleEvaluate
    \/ InvokeHandleGetHistory
    \/ EvaluateSettle
    \/ HistorySettle

HandlerSpec == Init /\ [][NextHandlers]_vars

----------------------------------------------------------------------------
(* Properties *)

\* the banner renders: {error && ...}
ErrorShown(msg) == msg # NoError /\ msg # <<"">>

\* the message has this part
Contains(msg, part) == \E k \in DOMAIN msg : msg[k] = part

\* C1: when a call of either kind fails (fetch rejects, or the response has
\* a non-2xx status), the error message is set, for a non-2xx response it
\* contains the status code, and result and history keep their values.
C1_FailureKeepsData ==
    [][ /\ \A i \in DOMAIN evaluateCalls :
            /\ \A e \in FetchErrors :
                   EvaluateFetchRejected(i, e)
                       => ErrorShown(error') /\ UNCHANGED <<result, history>>
            /\ \A st \in Statuses :
                   (~ResponseOk(st) /\ EvaluateResponse(i, st))
                       => /\ ErrorShown(error')
                          /\ Contains(error', ToString(st))
                          /\ UNCHANGED <<result, history>>
        /\ \A i \in DOMAIN historyCalls :
            /\ \A e \in FetchErrors :
                   HistoryFetchRejected(i, e)
                       => ErrorShown(error') /\ UNCHANGED <<result, history>>
            /\ \A st \in Statuses :
                   (~ResponseOk(st) /\ HistoryResponse(i, st))
                       => /\ ErrorShown(error')
                          /\ Contains(error', ToString(st))
                          /\ UNCHANGED <<result, history>>
      ]_vars

\* a failure is on display while a result and a history are held
C1_Witness ==
    /\ result = "R1"
    /\ history = <<"H1">>
    /\ error = HttpErrorMessage(500)
    /\ evaluateCalls = << >>
    /\ historyCalls = << >>

\* C2: at most one evaluate call and at most one history call is outstanding,
\* and the control of a kind is disabled while its call is outstanding.
C2_OneCallPerKind ==
    /\ Len(evaluateCalls) <= 1
    /\ Len(historyCalls) <= 1
    /\ (evaluateCalls # << >> => EvaluateDisabled)
    /\ (historyCalls # << >> => HistoryDisabled)

\* an evaluate call is outstanding and only that disables the button
C2_Witness ==
    /\ Len(evaluateCalls) = 1
    /\ Truthy(inputText)
    /\ Truthy(backendUrl)
    /\ EvaluateDisabled

\* C3: while the input text is empty the evaluate control is disabled and no
\* step issues an evaluate request; every evaluate request is a POST to
\* /evaluate_response that carries a non-empty text.
C3_NoEvaluateOfEmptyInput ==
    /\ [](inputText = "" => EvaluateDisabled)
    /\ [](\A i \in DOMAIN evaluateCalls :
              /\ evaluateCalls[i].body.response # ""
              /\ evaluateCalls[i].method = "POST"
              /\ evaluateCalls[i].url = EvaluateUrl(backendUrl))
    /\ [][inputText = "" => Len(evaluateCalls') <= Len(evaluateCalls)]_vars

\* a request is outstanding whose text the user has since cleared
C3_Witness ==
    /\ Len(evaluateCalls) = 1
    /\ evaluateCalls[1].body.response = "b"
    /\ inputText = ""

\* C4: with no backend URL configured, either handler sets the error message
\* to the configuration error and issues no network call; the loading flags,
\* the result and the history keep their values.
C4_ConfigErrorOnly ==
    /\ [][ (~Truthy(backendUrl) /\ (InvokeHandleEvaluate \/ InvokeHandleGetHistory))
              => /\ error' = ConfigError
                 /\ UNCHANGED <<isEvaluating, isLoadingHistory, result, history,
                                evaluateCalls, historyCalls>> ]_vars
    /\ [](~Truthy(backendUrl) =>
              /\ evaluateCalls = << >> /\ historyCalls = << >>
              /\ ~isEvaluating /\ ~isLoadingHistory
              /\ error \in {NoError, ConfigError})

\* both handlers have reported the missing configuration
C4_Witness ==
    /\ ~Truthy(backendUrl)
    /\ error = ConfigError
    /\ errorWriters = {"evaluate", "history"}

\* the theme state: the flag, the document class and the stored value
ThemeState == [darkMode |-> darkMode, classList |-> classList,
               localStorage |-> localStorage]

\* C5 as stated: two consecutive toggleTheme invocations return darkMode, the
\* 'dark' class and the persisted value to what they were before the first.
C5_ToggleTwiceRestoresAll ==
    Len(toggledFrom) = 2 => ThemeState = toggledFrom[1]

\* C5 as amended: two consecutive toggleTheme invocations return darkMode and
\* the 'dark' class to what they were; the persisted value returns to what it
\* was if that was "dark" or "light", and is "light" otherwise.
C5_ToggleTwiceRestoresMode ==
    Len(toggledFrom) = 2 =>
        LET before == toggledFrom[1]
            stored == getItem(before.localStorage, "theme")
        IN /\ darkMode = before.darkMode
           /\ classList = before.classList
           /\ getItem(localStorage, "theme") =
                  IF stored \in {"dark", "light"} THEN stored ELSE "light"

\* two toggles after a load that found no 'theme' key
C5_Witness ==
    /\ Len(toggledFrom) = 2
    /\ savedTheme = Null
    /\ "theme" \notin DOMAIN toggledFrom[1].localStorage
    /\ getItem(localStorage, "theme") = "light"

\* C6: history is the payload of the last successful history fetch (empty if
\* none), result is the result of the last successful evaluate call (null if
\* none).
C6_LatestOnly ==
    /\ history = latestHistory
    /\ result = latestResult

\* a second successful fetch of each kind has replaced what the first stored
C6_Witness ==
    /\ result = "R2"
    /\ history = <<"H2", "H1">>
    /\ error = <<"Failed to fetch">>

\* C7: once the initial-load effect has run, darkMode holds iff the persisted
\* 'theme' value is "dark", and the 'dark' class is present iff darkMode holds.
C7_ThemeConsistent ==
    mounted =>
        /\ darkMode <=> (getItem(localStorage, "theme") = "dark")
        /\ ("dark" \in classList) <=> darkMode

\* the effect found a value that is neither "dark" nor "light"
C7_Witness ==
    /\ mounted
    /\ savedTheme = "system"
    /\ getItem(localStorage, "theme") = "system"
    /\ ~darkMode

\* a step of the evaluate action, and one of the history action
EvaluateStep == ClickEvaluate \/ EvaluateSettle
HistoryStep == ClickGetHistory \/ HistorySettle

\* C8 as stated, for the error slot: a single action writes it.
C8_ErrorHasOneWriter == Cardinality(errorWriters) <= 1

\* C8 as amended: result and isEvaluating are written by steps of the evaluate
\* action only, history and isLoadingHistory by steps of the history action
\* only; error is written by both.
C8_OwnedSlots ==
    [][ /\ EvaluateStep => UNCHANGED <<history, isLoadingHistory>>
        /\ HistoryStep => UNCHANGED <<result, isEvaluating>>
        /\ (result' # result \/ isEvaluating' # isEvaluating) => EvaluateStep
        /\ (history' # history \/ isLoadingHistory' # isLoadingHistory) => HistoryStep
      ]_vars

\* both actions have written error, each has stored its own data
C8_Witness ==
    /\ errorWriters = {"evaluate", "history"}
    /\ result = "R1"
    /\ history = <<"H2", "H1">>
    /\ error = HttpErrorMessage(404)

\* C9: while a call of one kind is outstanding the control of the other kind
\* is enabled (backend configured, input non-empty for evaluate); a call that
\* settles leaves the other kind's flag and call alone, and with both
\* outstanding either may settle first.
C9_KindsIndependent ==
    /\ []((mounted /\ evaluateCalls # << >> /\ historyCalls = << >>)
              => ~HistoryDisabled)
    /\ []((mounted /\ historyCalls # << >> /\ evaluateCalls = << >>
                  /\ Truthy(inputText))
              => ~EvaluateDisabled)
    /\ []((evaluateCalls # << >> /\ historyCalls # << >>)
              => (ENABLED EvaluateSettle /\ ENABLED HistorySettle))
    /\ [][EvaluateSettle => UNCHANGED <<isLoadingHistory, historyCalls, history>>]_vars
    /\ [][HistorySettle => UNCHANGED <<isEvaluating, evaluateCalls, result>>]_vars

\* a call of each kind is outstanding
C9_Witness ==
    /\ Len(evaluateCalls) = 1
    /\ Len(historyCalls) = 1
    /\ isEvaluating
    /\ isLoadingHistory

\* a step in which a call of the kind fails
EvaluateFails ==
    \E i \in DOMAIN evaluateCalls :
        \/ \E e \in FetchErrors : EvaluateFetchRejected(i, e)
        \/ \E st \in Statuses : ~ResponseOk(st) /\ EvaluateResponse(i, st)
        \/ \E e \in JsonErrors : EvaluateJsonRejected(i, e)
HistoryFails ==
    \E i \in DOMAIN historyCalls :
        \/ \E e \in FetchErrors : HistoryFetchRejected(i, e)
        \/ \E st \in Statuses : ~ResponseOk(st) /\ HistoryResponse(i, st)
        \/ \E e \in JsonErrors : HistoryJsonRejected(i, e)

\* C10: the loading flag of a kind is true exactly while a call of that kind
\* is outstanding; if every request settles, each flag returns to false; after
\* a failure the action can be triggered again.
C10_LoadingWhileOutstanding ==
    /\ [](isEvaluating <=> evaluateCalls # << >>)
    /\ [](isLoadingHistory <=> historyCalls # << >>)
    /\ (isEvaluating ~> ~isEvaluating)
    /\ (isLoadingHistory ~> ~isLoadingHistory)
    /\ [][EvaluateFails => (~isEvaluating' /\ (Truthy(inputText') => ~EvaluateDisabled'))]_vars
    /\ [][HistoryFails => (~isLoadingHistory' /\ ~HistoryDisabled')]_vars

\* an evaluate call has failed and the button is enabled again
C10_Witness ==
    /\ error = <<"Unexpected end of JSON input">>
    /\ "evaluate" \in errorWriters
    /\ "history" \notin errorWriters
    /\ ~isEvaluating
    /\ ~EvaluateDisabled

\* a step in which a call of the kind completes successfully
EvaluateSucceeds ==
    \E i \in DOMAIN evaluateCalls, d \in EvaluateBodies : EvaluateJsonResolved(i, d)
HistorySucceeds ==
    \E i \in DOMAIN historyCalls, d \in HistoryBodies : HistoryJsonResolved(i, d)

\* C11: error goes back to null only in a step that starts an action with a
\* backend configured; starting either action clears it whoever set it; a
\* call that completes successfully leaves it as it is, also when the message
\* came from the failure of the other kind while the two overlapped.
C11_ErrorClearedOnStartOnly ==
    /\ [][(error # NoError /\ error' = NoError)
              => (Truthy(backendUrl) /\ (ClickEvaluate \/ ClickGetHistory))]_vars
    /\ [][(ClickEvaluate \/ ClickGetHistory) => error' = NoError]_vars
    /\ [][(EvaluateSucceeds \/ HistorySucceeds) => UNCHANGED error]_vars

\* an evaluate call awaits its body while a message is shown: the click that
\* started it cleared the slot, so the message comes from a history call that
\* failed since, and the evaluate call is about to succeed under it
C11_Witness ==
    /\ Len(evaluateCalls) = 1
    /\ evaluateCalls[1].pc = "json"
    /\ historyCalls = << >>
    /\ error = HttpErrorMessage(404)

====
